---- MODULE Spec2Model ----
(***************************************************************************)
(* vscode-marlint: the manifest inspector (Package), the Linter language   *)
(* server and the document-keyed language server, as state machines.       *)
(*                                                                         *)
(*   SpecPkg     Package.isDependency over bounded manifests and names     *)
(*   SpecReport  the report -> diagnostics translation of validate         *)
(*   SpecLinter  the Linter server (class Linter)                          *)
(*   SpecDoc     the document-keyed server (document2Library/path2Library) *)
(*   Spec        either server, chosen when the session starts             *)
(***************************************************************************)
EXTENDS Naturals, Integers, Sequences, FiniteSets, Bags, TLC

VARIABLES
    server,            \* which program runs: "package", "report", "linter", "document"
    manifest,          \* <workspaceRoot>/package.json on disk (environment)
    query,             \* the last isDependency call and what it did
    documents,         \* TextDocuments: the URIs of the open documents
    published,         \* per URI, the payload of the last sendDiagnostics, if any
    lastLint,          \* the last lintText call translated: its document and its report
    disk,              \* Linter: what Files.resolveModule finds for "marlint" (environment)
    package,           \* Linter: this.package ("undefined" before initialize)
    lib,               \* Linter: this.lib
    lookups,           \* Linter: the Files.resolveModule calls in flight
    batches,           \* Linter: the validateMany calls whose promises are not all settled
    initResult,        \* what the initialize request answered
    started,           \* number of requests handled so far (caps the run)
    shown,             \* bag of the messages passed to window.showErrorMessage
    uncaught,          \* errors that escaped a handler or were left as unhandled rejections
    nodePath,          \* document server: initializationOptions.nodePath
    moduleAt,          \* document server: what require(path) yields (environment)
    document2Library,  \* document server: per URI, the promise of its library
    path2Library,      \* document server: per resolved path, the loaded library
    immediates,        \* document server: the setImmediate queue of validateDocument calls
    waiting            \* document server: validateDocument continuations on a pending promise

vars == << server, manifest, query, documents, published, lastLint, disk, package,
           lib, lookups, batches, initResult, started, shown, uncaught,
           nodePath, moduleAt, document2Library, path2Library, immediates, waiting >>

pkgVars    == << query >>
reportVars == << lastLint >>
linterVars == << disk, package, lib, lookups, batches >>
docVars    == << nodePath, moduleAt, document2Library, path2Library, immediates, waiting >>

-----------------------------------------------------------------------------
(* Bounds *)

MaxRequests == 3      \* notifications handled in one run
MaxMessages == 2      \* messages in results[0] of a lint report

-----------------------------------------------------------------------------
(* JavaScript values *)

UNDEFINED == "undefined"
NULL      == "null"

\* ToBoolean of the values the model holds: strings, undefined, null, functions
Truthy(v) == v \notin {UNDEFINED, NULL, ""}

\* a || b
Or(a, b) == IF Truthy(a) THEN a ELSE b

-----------------------------------------------------------------------------
(* The manifest and Package.isDependency *)

PackageNames  == {"marlint", "eslint"}           \* names a manifest may declare
ProtoNames    == {"toString"}                    \* keys every object inherits
Names         == PackageNames \cup ProtoNames    \* names isDependency is asked about
VersionSpecs  == {"^1.0.0", ""}                  \* "" is npm's spelling of "*"

\* a dependencies / devDependencies section; a section that is left out
\* reads as {} (pkg.dependencies || {}) and is the empty function here
Sections == UNION { [ks -> VersionSpecs] : ks \in SUBSET PackageNames }

NoSection == CHOOSE s \in Sections : DOMAIN s = {}

\* file "ok": the file parses to an object with these two sections;
\* "ENOENT": no file; "EACCES": the file cannot be read; "malformed": not JSON
ParsedManifests == [file : {"ok"}, dependencies : Sections, devDependencies : Sections]
BrokenManifests == [file : {"ENOENT", "EACCES", "malformed"},
                    dependencies : {NoSection}, devDependencies : {NoSection}]
Manifests == ParsedManifests \cup BrokenManifests

\* obj[name] on an object parsed from JSON
Get(obj, name) ==
    IF name \in DOMAIN obj THEN obj[name]
    ELSE IF name \in ProtoNames THEN "[Function]"
    ELSE UNDEFINED

\* errors: the message and, for a ResponseError, data.retry
\* ("true" / "false"; undefined for any other error)
PlainError(msg)        == [message |-> msg, retry |-> UNDEFINED]
ResponseError(msg, rt) == [message |-> msg, retry |-> rt]
NoError                == PlainError(UNDEFINED)

\* loadJsonFile.sync(path.join(workspaceRoot, "package.json"))
loadJsonFile(m) ==
    CASE m.file = "ENOENT"    -> [threw |-> TRUE,  code |-> "ENOENT",  message |-> "ENOENT: no such file or directory"]
      [] m.file = "EACCES"    -> [threw |-> TRUE,  code |-> "EACCES",  message |-> "EACCES: permission denied"]
      [] m.file = "malformed" -> [threw |-> TRUE,  code |-> UNDEFINED, message |-> "Unexpected token in JSON"]
      [] OTHER                -> [threw |-> FALSE, code |-> UNDEFINED, message |-> UNDEFINED]

Returned(v) == [threw |-> FALSE, value |-> v,     err |-> NoError]
Thrown(e)   == [threw |-> TRUE,  value |-> FALSE, err |-> e]

\* isDependency without the ENOENT case: every read error is rethrown
isDependency_RethrowsEnoent(m, name) ==
    LET r == loadJsonFile(m) IN
    IF r.threw THEN Thrown(PlainError(r.message))
    ELSE Returned(Truthy(Or(Get(m.dependencies, name), Get(m.devDependencies, name))))

\* isDependency with a catch that answers false to every read error
isDependency_SwallowsErrors(m, name) ==
    LET r == loadJsonFile(m) IN
    IF r.threw THEN Returned(FALSE)
    ELSE Returned(Truthy(Or(Get(m.dependencies, name), Get(m.devDependencies, name))))

\* Package.isDependency(name) on the manifest m
isDependency(m, name) ==
    LET r == loadJsonFile(m) IN
    IF r.threw
    THEN IF r.code = "ENOENT" THEN Returned(FALSE) ELSE Thrown(PlainError(r.message))
    ELSE Returned(Truthy(Or(Get(m.dependencies, name), Get(m.devDependencies, name))))

\* a call of isDependency(name) from outside
PkgIsDependency(name) ==
    /\ server = "package"
    /\ query' = [asked |-> TRUE, name |-> name, manifest |-> manifest,
                 result |-> isDependency(manifest, name)]
    /\ UNCHANGED << server, manifest, documents, published, lastLint, disk, package, lib,
                    lookups, batches, initResult, started, shown, uncaught, nodePath,
                    moduleAt, document2Library, path2Library, immediates, waiting >>

\* the user edits, creates or deletes package.json
PkgEditManifest ==
    /\ server = "package"
    /\ \E m \in Manifests \ {manifest} : manifest' = m
    /\ UNCHANGED << server, query, documents, published, lastLint, disk, package, lib,
                    lookups, batches, initResult, started, shown, uncaught, nodePath,
                    moduleAt, document2Library, path2Library, immediates, waiting >>

NextPkg ==
    \/ \E name \in Names : PkgIsDependency(name)
    \/ PkgEditManifest

-----------------------------------------------------------------------------
(* Documents *)

FileDoc     == "file:///ws/a.js"
UntitledDoc == "untitled:Untitled-1"
Docs        == {FileDoc, UntitledDoc}

\* Uri.parse(uri).scheme
Scheme(uri) == IF uri = FileDoc THEN "file" ELSE "untitled"

\* Files.uriToFilePath(uri): null unless the scheme is file
uriToFilePath(uri) == IF Scheme(uri) = "file" THEN "/ws/a.js" ELSE NULL

\* getFilePath(document): undefined unless the scheme is file
getFilePath(uri) == IF Scheme(uri) # "file" THEN UNDEFINED ELSE "/ws/a.js"

NotSent   == [sent |-> FALSE, diagnostics |-> << >>]
Sent(ds)  == [sent |-> TRUE,  diagnostics |-> ds]

\* connection.sendDiagnostics({ uri, diagnostics })
sendDiagnostics(pub, uri, ds) == [pub EXCEPT ![uri] = Sent(ds)]

-----------------------------------------------------------------------------
(* The lint report and its translation into diagnostics *)

RuleIds    == {NULL, "no-undef"}
Severities == {1, 2}
Texts      == {"x is not defined"}

Lines      == {1, 3}
Columns    == {1, 5}

Problems == [line : Lines, column : Columns, severity : Severities,
             ruleId : RuleIds, message : Texts]

SeqsUpTo(S, n) == UNION { [1..k -> S] : k \in 0..n }

\* what lintText returns: results[0] is results[1] here
ReportOf(msgs) == [results |-> << [messages |-> msgs] >>]
Reports        == { ReportOf(msgs) : msgs \in SeqsUpTo(Problems, MaxMessages) }

\* the callback with the positions left one-based
ToDiagnostic_OneBased(problem) ==
    [ message  |-> IF problem.ruleId # NULL
                   THEN problem.message \o " (" \o problem.ruleId \o ")"
                   ELSE problem.message,
      severity |-> IF problem.severity = 2 THEN "Error" ELSE "Warning",
      code     |-> problem.ruleId,
      source   |-> "Marlint",
      range    |-> [ start |-> [line |-> problem.line, character |-> problem.column],
                     end   |-> [line |-> problem.line, character |-> problem.column] ] ]

\* the callback of messages.map(...)
ToDiagnostic(problem) ==
    [ message  |-> IF problem.ruleId # NULL
                   THEN problem.message \o " (" \o problem.ruleId \o ")"
                   ELSE problem.message,
      severity |-> IF problem.severity = 2 THEN "Error" ELSE "Warning",
      code     |-> problem.ruleId,
      source   |-> "Marlint",
      range    |-> [ start |-> [line |-> problem.line - 1, character |-> problem.column - 1],
                     end   |-> [line |-> problem.line - 1, character |-> problem.column - 1] ] ]

\* report.results[0].messages.map(...)
ToDiagnostics(report) ==
    LET msgs == report.results[1].messages
    IN  [i \in 1..Len(msgs) |-> ToDiagnostic(msgs[i])]

\* what a lintText call does: it throws, or it returns a report; a report
\* for an ignored file has no results, and results[0].messages then throws
LintThrows    == [threw |-> TRUE,  report |-> [results |-> << >>]]
LintReturns(r) == [threw |-> FALSE, report |-> r]

LintError   == PlainError("Parsing error: Unexpected token")
NoResultsError == PlainError("Cannot read property 'messages' of undefined")

OneProblem == [line |-> 3, column |-> 5, severity |-> 2, ruleId |-> "no-undef",
               message |-> "x is not defined"]

\* the lint outcomes the servers are run against
ServerOutcomes ==
    { LintThrows, LintReturns([results |-> << >>]),
      LintReturns(ReportOf(<< >>)), LintReturns(ReportOf(<< OneProblem >>)) }

\* lintText and the translation of its report: the diagnostics, or the error thrown
Translate(lint) ==
    IF lint.threw THEN [threw |-> TRUE, err |-> LintError, diagnostics |-> << >>]
    ELSE IF Len(lint.report.results) = 0
    THEN [threw |-> TRUE, err |-> NoResultsError, diagnostics |-> << >>]
    ELSE [threw |-> FALSE, err |-> NoError, diagnostics |-> ToDiagnostics(lint.report)]

\* the lint outcomes the translation is checked on
ReportOutcomes == ServerOutcomes \cup { LintReturns(r) : r \in Reports }

\* one run of validate(document, marlint) of the document-keyed server on an
\* open document, in the try of validateDocument
ReportValidate(uri, lint) ==
    /\ server = "report"
    /\ ~lastLint.called
    /\ uri \in documents
    /\ lastLint' = [called |-> TRUE, uri |-> uri, lint |-> lint]
    /\ published' = IF Translate(lint).threw THEN published
                    ELSE sendDiagnostics(published, uri, Translate(lint).diagnostics)
    /\ UNCHANGED << server, manifest, query, documents, disk, package, lib,
                    lookups, batches, initResult, started, shown, uncaught, nodePath,
                    moduleAt, document2Library, path2Library, immediates, waiting >>

NextReport == \E uri \in Docs, lint \in ReportOutcomes : ReportValidate(uri, lint)

-----------------------------------------------------------------------------
(* The Linter server *)

FailedToLoadMessage ==
    "Failed to load marlint. Make sure marlint is installed in your workspace folder and then press Retry."
NoLintTextMessage   == "Marlint doesn't export a lintText method."
OptionsTypeError    == PlainError("Cannot set property 'cwd' of undefined")
LibTypeError        == PlainError("Cannot read property 'lintText' of undefined")

\* what Files.resolveModule(workspaceRoot, "marlint") finds
DiskStates == {"missing", "valid", "nolint"}

\* the module object Files.resolveModule resolves with
MarlintModule == "marlint"

\* private options: any, which nothing assigns
options == UNDEFINED

\* the manifests the Linter server is run against
Declared(deps, devDeps) == [file |-> "ok", dependencies |-> deps, devDependencies |-> devDeps]
LinterManifests ==
    { m \in BrokenManifests : m.file = "malformed" }
    \cup { Declared(NoSection, NoSection),
           Declared(NoSection, [k \in {"marlint"} |-> "^1.0.0"]),
           Declared(NoSection, [k \in {"marlint"} |-> ""]) }

Fulfilled(v, e) == [state |-> "fulfilled", value |-> v, err |-> e]
Rejected(e)     == [state |-> "rejected",  value |-> UNDEFINED, err |-> e]

\* the two callbacks of Files.resolveModule(...).then in resolveModule: what
\* the returned promise settles to (store: this.lib = marlint was executed)
resolveModuleCallbacks(found, m) ==
    CASE found = "valid"  -> [promise |-> Fulfilled("result", NoError), store |-> TRUE]
      [] found = "nolint" -> [promise |-> Fulfilled("ResponseError", ResponseError(NoLintTextMessage, "false")),
                              store |-> FALSE]
      [] OTHER ->
            LET dep == isDependency(m, "marlint") IN
            [promise |-> IF dep.threw THEN Rejected(dep.err)
                         ELSE IF dep.value THEN Rejected(ResponseError(FailedToLoadMessage, "true"))
                         ELSE Fulfilled(UNDEFINED, NoError),
             store |-> FALSE]

Quiet == [threw |-> FALSE, err |-> NoError, sends |-> FALSE, diagnostics |-> << >>]

\* the callback of this.resolveModule().then in validate, run with this.lib = l
\* and a lintText that behaves as lint
validateBody(uri, l, lint) ==
    IF uriToFilePath(uri) = NULL THEN Quiet
    ELSE IF options = UNDEFINED THEN [Quiet EXCEPT !.threw = TRUE, !.err = OptionsTypeError]
    ELSE IF l = UNDEFINED THEN [Quiet EXCEPT !.threw = TRUE, !.err = LibTypeError]
    ELSE LET t == Translate(lint) IN
         IF t.threw THEN [Quiet EXCEPT !.threw = TRUE, !.err = t.err]
         ELSE [Quiet EXCEPT !.sends = TRUE, !.diagnostics = t.diagnostics]

\* what the promise validate returns settles to, once resolveModule's promise
\* has settled to p
validateSettles(p, uri, l, lint) ==
    IF p.state = "rejected" THEN [Quiet EXCEPT !.threw = TRUE, !.err = p.err]
    ELSE validateBody(uri, l, lint)

\* getMessage(err, document)
getMessage(err, uri) ==
    IF err.message # UNDEFINED THEN err.message
    ELSE "An unknown error occurred while validating file: " \o uriToFilePath(uri)

\* connection.window.showErrorMessage(msg)
showErrorMessage(bag, msg) == bag (+) SetToBag({msg})

\* ErrorMessageTracker.sendErrors: each message the tracker holds, once
sendErrors(bag, tracker) == bag (+) SetToBag(tracker)

\* lookups is a bag: calls of the same origin for the same document are alike
Lookup(origin, uri, batch) == [origin |-> origin, uri |-> uri, batch |-> batch]

\* a name for a new promise: the least number no call in flight bears
FreshId(used) == CHOOSE n \in 1..(Cardinality(used) + 1) :
                    /\ n \notin used
                    /\ \A k \in 1..(n - 1) : k \in used
BatchIds  == { b.id : b \in batches }

\* validate without the manifest check at its head
validateBegins_NoManifestCheck(m, l) == IF l # UNDEFINED THEN "now" ELSE "lookup"

\* validate with the look at this.lib ahead of the manifest check
validateBegins_CacheFirst(m, l) ==
    LET dep == isDependency(m, "marlint") IN
    IF l # UNDEFINED THEN "now"
    ELSE IF dep.threw THEN "throws"
    ELSE IF ~dep.value THEN "skip"
    ELSE "lookup"

\* validate(document), up to the call of resolveModule: "throws" (isDependency
\* threw), "skip" (not a dependency), "now" (this.lib is set), "lookup"
validateBegins(m, l) ==
    LET dep == isDependency(m, "marlint") IN
    IF dep.threw THEN "throws"
    ELSE IF ~dep.value THEN "skip"
    ELSE IF l # UNDEFINED THEN "now"
    ELSE "lookup"

\* what the then-callbacks of validateSingle do with the settled validation v
validateSingleSettles(v, uri) ==
    /\ published' = IF v.sends THEN sendDiagnostics(published, uri, v.diagnostics) ELSE published
    /\ shown' = IF v.threw THEN showErrorMessage(shown, getMessage(v.err, uri)) ELSE shown

\* this.validateSingle(document): the handler of onDidChangeContent
validateSingle(uri) ==
    LET b == validateBegins(manifest, lib) IN
    /\ started < MaxRequests
    /\ started' = started + 1
    /\ CASE b = "throws" ->
              /\ uncaught' = uncaught \cup {isDependency(manifest, "marlint").err.message}
              /\ UNCHANGED << published, shown, lookups >>
         [] b = "skip" ->
              UNCHANGED << published, shown, lookups, uncaught >>
         [] b = "now" ->
              /\ \E lint \in ServerOutcomes :
                    validateSingleSettles(
                        validateSettles(Fulfilled("result", NoError), uri, lib, lint), uri)
              /\ UNCHANGED << lookups, uncaught >>
         [] OTHER ->
              /\ lookups' = lookups (+) SetToBag({Lookup("single", uri, 0)})
              /\ UNCHANGED << published, shown, uncaught >>

\* the session runs once initialize was answered without an error
Running == initResult \in {"result", "undefined"}

\* how the connection answers initialize from the promise initialize returns
initializeAnswer(p) ==
    IF p.state = "fulfilled"
    THEN CASE p.value = "result"        -> "result"
           [] p.value = "ResponseError" -> "error:noretry"
           [] OTHER                     -> "undefined"
    ELSE IF p.err.retry = "true" THEN "error:retry" ELSE "error"

\* initialize(params): the first request, sent again after a retryable error
LinterInitialize ==
    /\ server = "linter"
    /\ initResult \in {"none", "error:retry"}
    /\ package' = "Package"
    /\ IF lib # UNDEFINED
       THEN /\ initResult' = "result"
            /\ UNCHANGED lookups
       ELSE /\ initResult' = "pending"
            /\ lookups' = lookups (+) SetToBag({Lookup("initialize", UNDEFINED, 0)})
    /\ UNCHANGED << manifest, disk, lib, batches, documents, published, started, shown, uncaught >>
    /\ UNCHANGED << pkgVars, reportVars, docVars, server >>

\* textDocument/didOpen: TextDocuments adds the document and fires onDidChangeContent
LinterOpen(uri) ==
    /\ server = "linter" /\ Running
    /\ uri \notin documents
    /\ documents' = documents \cup {uri}
    /\ validateSingle(uri)
    /\ UNCHANGED << manifest, disk, package, lib, batches, initResult >>
    /\ UNCHANGED << pkgVars, reportVars, docVars, server >>

\* textDocument/didChange: TextDocuments updates the document and fires onDidChangeContent
LinterChange(uri) ==
    /\ server = "linter" /\ Running
    /\ uri \in documents
    /\ validateSingle(uri)
    /\ UNCHANGED << manifest, disk, package, lib, batches, initResult, documents >>
    /\ UNCHANGED << pkgVars, reportVars, docVars, server >>

\* a close handler that leaves the diagnostics to a validation still in flight
onDidClose_UnlessInFlight(uri) ==
    published' = IF waiting[uri] > 0 \/ \E l \in BagToSet(lookups) : l.uri = uri
                 THEN published
                 ELSE sendDiagnostics(published, uri, << >>)

\* the handler of documents.onDidClose
onDidClose(uri) ==
    published' = sendDiagnostics(published, uri, << >>)

\* textDocument/didClose: TextDocuments drops the document and fires onDidClose
LinterClose(uri) ==
    /\ server = "linter" /\ Running
    /\ uri \in documents
    /\ documents' = documents \ {uri}
    /\ onDidClose(uri)
    /\ UNCHANGED << manifest, disk, package, lib, lookups, batches, initResult,
                    started, shown, uncaught >>
    /\ UNCHANGED << pkgVars, reportVars, docVars, server >>

\* the messages the rejected validations of a batch add to the tracker
TrackerOf(vs) == { getMessage(vs[uri].err, uri) : uri \in {u \in DOMAIN vs : vs[u].threw} }

\* the diagnostics the validations vs of a batch send
PublishedBy(pub, vs) ==
    [uri \in Docs |-> IF uri \in DOMAIN vs /\ vs[uri].sends
                      THEN Sent(vs[uri].diagnostics) ELSE pub[uri]]

\* this.validateMany(this.documents.all()): the handler of onDidChangeWatchedFiles
validateMany(docs) ==
    LET b == IF docs = {} THEN "skip" ELSE validateBegins(manifest, lib) IN
    /\ started < MaxRequests
    /\ started' = started + 1
    /\ CASE b = "throws" ->
              /\ uncaught' = uncaught \cup {isDependency(manifest, "marlint").err.message}
              /\ UNCHANGED << published, shown, lookups, batches >>
         [] b = "skip" ->
              UNCHANGED << published, shown, lookups, batches, uncaught >>
         [] b = "now" ->
              /\ \E lints \in [docs -> ServerOutcomes] :
                    LET vs == [uri \in docs |->
                                 validateSettles(Fulfilled("result", NoError), uri, lib, lints[uri])]
                    IN  /\ published' = PublishedBy(published, vs)
                        /\ shown' = sendErrors(shown, TrackerOf(vs))
              /\ UNCHANGED << lookups, batches, uncaught >>
         [] OTHER ->
              /\ lookups' = lookups (+) SetToBag({ Lookup("batch", uri, FreshId(BatchIds)) : uri \in docs })
              /\ batches' = batches \cup {[id |-> FreshId(BatchIds), open |-> docs, tracker |-> {}]}
              /\ UNCHANGED << published, shown, uncaught >>

\* workspace/didChangeWatchedFiles
LinterWatchedFiles ==
    /\ server = "linter" /\ Running
    /\ validateMany(documents)
    /\ UNCHANGED << manifest, disk, package, lib, initResult, documents >>
    /\ UNCHANGED << pkgVars, reportVars, docVars, server >>

\* callbacks that show the error of each document as its validation settles
validateManySettles_ShowsAtOnce(b, v, uri) ==
    LET open == b.open \ {uri}
    IN  /\ published' = IF v.sends THEN sendDiagnostics(published, uri, v.diagnostics) ELSE published
        /\ shown' = IF v.threw THEN showErrorMessage(shown, getMessage(v.err, uri)) ELSE shown
        /\ batches' = IF open = {} THEN batches \ {b}
                      ELSE (batches \ {b}) \cup {[b EXCEPT !.open = open]}

\* the then-callbacks of validateMany for one document of batch b, whose
\* validation settled to v, and the callback of Promise.all once all have settled
validateManySettles(b, v, uri) ==
    LET tracker == IF v.threw THEN b.tracker \cup {getMessage(v.err, uri)} ELSE b.tracker
        open    == b.open \ {uri}
    IN  /\ published' = IF v.sends THEN sendDiagnostics(published, uri, v.diagnostics) ELSE published
        /\ IF open = {}
           THEN /\ shown' = sendErrors(shown, tracker)
                /\ batches' = batches \ {b}
           ELSE /\ shown' = shown
                /\ batches' = (batches \ {b}) \cup {[b EXCEPT !.open = open, !.tracker = tracker]}

\* a Files.resolveModule call completes: the callbacks of resolveModule run,
\* then those of validate and of validateSingle / validateMany
LinterResolved(l) ==
    LET cb   == resolveModuleCallbacks(disk, manifest)
        lib1 == IF cb.store THEN MarlintModule ELSE lib
    IN  /\ server = "linter"
        /\ BagIn(l, lookups)
        /\ lookups' = lookups (-) SetToBag({l})
        /\ lib' = lib1
        /\ CASE l.origin = "initialize" ->
                  /\ initResult' = initializeAnswer(cb.promise)
                  /\ UNCHANGED << published, shown, batches >>
             [] l.origin = "single" ->
                  /\ \E lint \in ServerOutcomes :
                        validateSingleSettles(validateSettles(cb.promise, l.uri, lib1, lint), l.uri)
                  /\ UNCHANGED << initResult, batches >>
             [] OTHER ->
                  /\ \E b \in batches, lint \in ServerOutcomes :
                        /\ b.id = l.batch
                        /\ validateManySettles(b, validateSettles(cb.promise, l.uri, lib1, lint), l.uri)
                  /\ UNCHANGED initResult
        /\ UNCHANGED << manifest, disk, package, documents, started, uncaught >>
        /\ UNCHANGED << pkgVars, reportVars, docVars, server >>

\* the user edits, creates or deletes package.json
LinterEditManifest ==
    /\ server = "linter"
    /\ \E m \in LinterManifests \ {manifest} : manifest' = m
    /\ UNCHANGED << disk, package, lib, lookups, batches, initResult, documents,
                    published, started, shown, uncaught >>
    /\ UNCHANGED << pkgVars, reportVars, docVars, server >>

\* the user installs, breaks or removes node_modules/marlint
LinterDiskChanges ==
    /\ server = "linter"
    /\ \E k \in DiskStates \ {disk} : disk' = k
    /\ UNCHANGED << manifest, package, lib, lookups, batches, initResult, documents,
                    published, started, shown, uncaught >>
    /\ UNCHANGED << pkgVars, reportVars, docVars, server >>

NextLinter ==
    \/ LinterInitialize
    \/ \E uri \in Docs : LinterOpen(uri)
    \/ \E uri \in Docs : LinterChange(uri)
    \/ \E uri \in Docs : LinterClose(uri)
    \/ LinterWatchedFiles
    \/ \E l \in BagToSet(lookups) : LinterResolved(l)
    \/ LinterEditManifest
    \/ LinterDiskChanges

-----------------------------------------------------------------------------
(* The document-keyed server *)

\* the paths Files.resolve can answer with
Paths == {"/np/node_modules/marlint", "/ws/node_modules/marlint"}

\* what require(path) yields: a module with lintText, or one without
ModuleKinds == {"valid", "nolint"}

NoLibraryMessage == "The marlint library doesn't export lintText"

\* a Thenable<MarlintModule>: no entry yet; pending on a Files.resolve call
\* (stage: the nodePath attempt or the global one); settled
NoPromise        == [state |-> "none",      stage |-> "-",  library |-> UNDEFINED]
Pending(stage)   == [state |-> "pending",   stage |-> stage, library |-> UNDEFINED]
FulfilledWith(l) == [state |-> "fulfilled", stage |-> "-",  library |-> l]
RejectedPromise  == [state |-> "rejected",  stage |-> "-",  library |-> UNDEFINED]

\* validate(document, marlint) inside the try of validateDocument, with a
\* lintText that behaves as lint: the diagnostics list it sends, if it gets there
validate(pub, uri, lint) ==
    LET t == Translate(lint) IN
    IF t.threw THEN pub ELSE sendDiagnostics(pub, uri, t.diagnostics)

\* the callback with a second look at documents.get(uri) before it validates
libraryCallback_ChecksOpen(pub, p, uri, lint) ==
    IF p.state = "rejected" THEN pub
    ELSE IF ~Truthy(p.library) THEN pub
    ELSE IF uri \notin documents THEN pub
    ELSE validate(pub, uri, lint)

\* the callback validateDocument chains on the settled promise p
libraryCallback(pub, p, uri, lint) ==
    IF p.state = "rejected" THEN pub
    ELSE IF ~Truthy(p.library) THEN pub
    ELSE validate(pub, uri, lint)

\* the callbacks of the n validateDocument calls waiting on p, in order
RECURSIVE libraryCallbacks(_, _, _, _, _)
libraryCallbacks(pub, p, uri, lints, n) ==
    IF n = 0 THEN pub
    ELSE libraryCallback(libraryCallbacks(pub, p, uri, lints, n - 1), p, uri, lints[n])

\* a callback chained on a rejected promise has no rejection handler
Unhandled(p, n) == IF p.state = "rejected" /\ n > 0 THEN {NoLibraryMessage} ELSE {}

\* validateDocument without the try around validate: what validate throws
\* rejects the promise of the callback, which nothing handles
validateDocument_NoTry(open, d2l, pub, wait, unc, uri, lint) ==
    IF uri \notin open \/ d2l[uri].state = "none"
    THEN [published |-> pub, waiting |-> wait, uncaught |-> unc]
    ELSE IF d2l[uri].state = "pending"
    THEN [published |-> pub, waiting |-> [wait EXCEPT ![uri] = @ + 1], uncaught |-> unc]
    ELSE [published |-> libraryCallback(pub, d2l[uri], uri, lint),
          waiting   |-> wait,
          uncaught  |-> unc \cup Unhandled(d2l[uri], 1)
                            \cup IF d2l[uri].state = "fulfilled" /\ Truthy(d2l[uri].library)
                                    /\ Translate(lint).threw
                                 THEN {Translate(lint).err.message} ELSE {}]

\* validateDocument(document) with the documents open, the promises d2l, a
\* lintText that behaves as lint: what it leaves in published, waiting, uncaught
validateDocument(open, d2l, pub, wait, unc, uri, lint) ==
    IF uri \notin open \/ d2l[uri].state = "none"
    THEN [published |-> pub, waiting |-> wait, uncaught |-> unc]
    ELSE IF d2l[uri].state = "pending"
    THEN [published |-> pub, waiting |-> [wait EXCEPT ![uri] = @ + 1], uncaught |-> unc]
    ELSE [published |-> libraryCallback(pub, d2l[uri], uri, lint),
          waiting   |-> wait,
          uncaught  |-> unc \cup Unhandled(d2l[uri], 1)]

\* connection.onInitialize
DocInitialize ==
    /\ server = "document"
    /\ initResult = "none"
    /\ \E np \in {UNDEFINED, "/np"} : nodePath' = np
    /\ initResult' = "result"
    /\ UNCHANGED << moduleAt, document2Library, path2Library, immediates, waiting,
                    documents, published, started, shown, uncaught, manifest >>
    /\ UNCHANGED << pkgVars, reportVars, linterVars, server >>

\* a handler that resolves and schedules on every open
onDidOpen_EveryOpen(uri) ==
    /\ document2Library' =
          [document2Library EXCEPT
              ![uri] = Pending(IF Scheme(uri) = "file" /\ Truthy(nodePath)
                               THEN "nodePath" ELSE "global")]
    /\ immediates' = Append(immediates, uri)

\* the handler of documents.onDidOpen
onDidOpen(uri) ==
    IF document2Library[uri].state = "none"
    THEN /\ document2Library' =
               [document2Library EXCEPT
                   ![uri] = Pending(IF Scheme(uri) = "file" /\ Truthy(nodePath)
                                    THEN "nodePath" ELSE "global")]
         /\ immediates' = Append(immediates, uri)
    ELSE UNCHANGED << document2Library, immediates >>

\* textDocument/didOpen
DocOpen(uri) ==
    /\ server = "document" /\ Running
    /\ uri \notin documents
    /\ started < MaxRequests
    /\ started' = started + 1
    /\ documents' = documents \cup {uri}
    /\ onDidOpen(uri)
    /\ UNCHANGED << nodePath, moduleAt, path2Library, waiting, published, shown,
                    uncaught, initResult, manifest >>
    /\ UNCHANGED << pkgVars, reportVars, linterVars, server >>

\* textDocument/didSave: the handler of documents.onDidSave
DocSave(uri) ==
    /\ server = "document" /\ Running
    /\ uri \in documents
    /\ started < MaxRequests
    /\ started' = started + 1
    /\ immediates' = Append(immediates, uri)
    /\ UNCHANGED << nodePath, moduleAt, document2Library, path2Library, waiting,
                    documents, published, shown, uncaught, initResult, manifest >>
    /\ UNCHANGED << pkgVars, reportVars, linterVars, server >>

\* textDocument/didClose
DocClose(uri) ==
    /\ server = "document" /\ Running
    /\ uri \in documents
    /\ documents' = documents \ {uri}
    /\ onDidClose(uri)
    /\ UNCHANGED << nodePath, moduleAt, document2Library, path2Library, immediates,
                    waiting, started, shown, uncaught, initResult, manifest >>
    /\ UNCHANGED << pkgVars, reportVars, linterVars, server >>

\* a setImmediate callback runs: validateDocument(event.document)
DocImmediate ==
    /\ server = "document"
    /\ immediates # << >>
    /\ immediates' = Tail(immediates)
    /\ \E lint \in ServerOutcomes :
          LET r == validateDocument(documents, document2Library, published, waiting,
                                    uncaught, Head(immediates), lint)
          IN  /\ published' = r.published
              /\ waiting' = r.waiting
              /\ uncaught' = r.uncaught
    /\ UNCHANGED << nodePath, moduleAt, document2Library, path2Library, documents,
                    started, shown, initResult, manifest >>
    /\ UNCHANGED << pkgVars, reportVars, linterVars, server >>

\* documents.all().forEach(validateDocument)
RECURSIVE validateAll(_, _, _, _, _, _, _)
validateAll(open, d2l, pub, wait, unc, todo, lints) ==
    IF todo = {} THEN [published |-> pub, waiting |-> wait, uncaught |-> unc]
    ELSE LET uri == CHOOSE u \in todo : TRUE
             r   == validateDocument(open, d2l, pub, wait, unc, uri, lints[uri])
         IN  validateAll(open, d2l, r.published, r.waiting, r.uncaught, todo \ {uri}, lints)

\* workspace/didChangeConfiguration
DocChangeConfiguration ==
    /\ server = "document" /\ Running
    /\ started < MaxRequests
    /\ started' = started + 1
    /\ \E lints \in [documents -> ServerOutcomes] :
          LET r == validateAll(documents, document2Library, published, waiting,
                               uncaught, documents, lints)
          IN  /\ published' = r.published
              /\ waiting' = r.waiting
              /\ uncaught' = r.uncaught
    /\ UNCHANGED << nodePath, moduleAt, document2Library, path2Library, immediates,
                    documents, shown, initResult, manifest >>
    /\ UNCHANGED << pkgVars, reportVars, linterVars, server >>

\* the callback with the assignment to path2Library ahead of the lintText test
loadLibrary_StoresUnchecked(p2l, path, kinds) ==
    IF Truthy(p2l[path])
    THEN [promise |-> FulfilledWith(p2l[path]), path2Library |-> p2l]
    ELSE [promise |-> IF kinds[path] = "nolint" THEN RejectedPromise ELSE FulfilledWith(path),
          path2Library |-> [p2l EXCEPT ![path] = path]]

\* the fulfilment callback of onDidOpen's promise.then, given the resolved
\* path: the promise it settles document2Library[docUri] to, and path2Library
loadLibrary(p2l, path, kinds) ==
    IF Truthy(p2l[path])
    THEN [promise |-> FulfilledWith(p2l[path]), path2Library |-> p2l]
    ELSE IF kinds[path] = "nolint"
    THEN [promise |-> RejectedPromise, path2Library |-> p2l]
    ELSE [promise |-> FulfilledWith(path), path2Library |-> [p2l EXCEPT ![path] = path]]

\* the promise of uri settles to p: the waiting validateDocument callbacks run
settle(uri, p, p2l) ==
    /\ document2Library' = [document2Library EXCEPT ![uri] = p]
    /\ path2Library' = p2l
    /\ waiting' = [waiting EXCEPT ![uri] = 0]
    /\ uncaught' = uncaught \cup Unhandled(p, waiting[uri])
    /\ \E lints \in [1..waiting[uri] -> ServerOutcomes] :
          published' = libraryCallbacks(published, p, uri, lints, waiting[uri])

\* a Files.resolve call completes with a path, or fails ("fail")
DocResolved(uri, answer) ==
    /\ server = "document"
    /\ document2Library[uri].state = "pending"
    /\ IF answer = "fail"
       THEN IF document2Library[uri].stage = "nodePath"
            THEN /\ document2Library' = [document2Library EXCEPT ![uri] = Pending("global")]
                 /\ UNCHANGED << path2Library, waiting, uncaught, published >>
            ELSE settle(uri, FulfilledWith(NULL), path2Library)
       ELSE LET r == loadLibrary(path2Library, answer, moduleAt)
            IN  settle(uri, r.promise, r.path2Library)
    /\ UNCHANGED << nodePath, moduleAt, immediates, documents, started, shown,
                    initResult, manifest >>
    /\ UNCHANGED << pkgVars, reportVars, linterVars, server >>

NextDoc ==
    \/ DocInitialize
    \/ \E uri \in Docs : DocOpen(uri)
    \/ \E uri \in Docs : DocSave(uri)
    \/ \E uri \in Docs : DocClose(uri)
    \/ DocImmediate
    \/ DocChangeConfiguration
    \/ \E uri \in Docs, answer \in Paths \cup {"fail"} : DocResolved(uri, answer)

-----------------------------------------------------------------------------
(* Initial states *)

NoManifest == CHOOSE m \in BrokenManifests : m.file = "ENOENT"

NoQuery == [asked |-> FALSE, name |-> "", manifest |-> NoManifest, result |-> Returned(FALSE)]
NoLint  == [called |-> FALSE, uri |-> "", lint |-> LintThrows]

IdleCommon ==
    /\ documents = {}
    /\ published = [uri \in Docs |-> NotSent]
    /\ started = 0
    /\ shown = EmptyBag
    /\ uncaught = {}
    /\ initResult = "none"
    /\ query = NoQuery
    /\ lastLint = NoLint

IdleLinter ==
    /\ package = UNDEFINED
    /\ lib = UNDEFINED
    /\ lookups = EmptyBag
    /\ batches = {}

IdleDoc ==
    /\ nodePath = UNDEFINED
    /\ document2Library = [uri \in Docs |-> NoPromise]
    /\ path2Library = [path \in Paths |-> UNDEFINED]
    /\ immediates = << >>
    /\ waiting = [uri \in Docs |-> 0]

InitLinter ==
    /\ server = "linter"
    /\ manifest \in LinterManifests
    /\ disk \in DiskStates
    /\ moduleAt = [path \in Paths |-> "valid"]
    /\ IdleCommon /\ IdleLinter /\ IdleDoc

SpecLinter == InitLinter /\ [][NextLinter]_vars

InitDoc ==
    /\ server = "document"
    /\ manifest = NoManifest
    /\ disk = "missing"
    /\ moduleAt \in [Paths -> ModuleKinds]
    /\ IdleCommon /\ IdleLinter /\ IdleDoc

SpecDoc == InitDoc /\ [][NextDoc]_vars

InitPkg ==
    /\ server = "package"
    /\ manifest \in Manifests
    /\ disk = "missing"
    /\ moduleAt = [path \in Paths |-> "valid"]
    /\ IdleCommon /\ IdleLinter /\ IdleDoc

SpecPkg == InitPkg /\ [][NextPkg]_vars

InitReport ==
    /\ server = "report"
    /\ manifest = NoManifest
    /\ disk = "missing"
    /\ moduleAt = [path \in Paths |-> "valid"]
    /\ documents = Docs
    /\ published = [uri \in Docs |-> NotSent]
    /\ started = 0 /\ shown = EmptyBag /\ uncaught = {} /\ initResult = "result"
    /\ query = NoQuery /\ lastLint = NoLint
    /\ IdleLinter /\ IdleDoc

SpecReport == InitReport /\ [][NextReport]_vars

Init == InitLinter \/ InitDoc
Next == NextLinter \/ NextDoc
Spec == Init /\ [][Next]_vars

-----------------------------------------------------------------------------
(* Properties *)

InFlight == BagCardinality(lookups)
           + Cardinality({uri \in Docs : document2Library[uri].state = "pending"})

KeyDeclared(m) == "marlint" \in (DOMAIN m.dependencies \cup DOMAIN m.devDependencies)

LinterRequest ==
    \/ \E uri \in Docs : LinterOpen(uri) \/ LinterChange(uri)
    \/ LinterWatchedFiles /\ documents # {}

Closes(uri) == uri \in documents /\ uri \notin documents'

\* C1: requests that overlap share one resolution: at no time is more than
\* one module lookup in flight
C1_OneResolutionInFlight == InFlight <= 1

\* C2: with the module not resolvable and the manifest not declaring it, a
\* validation sends no diagnostics, shows no message and leaves nothing behind
\* (Linter server: the request ends in its handler; document server: a
\* document whose library resolved to null has its diagnostics changed by
\* nothing but its close, and nothing is ever shown)
ModuleAbsentUndeclared ==
    /\ disk = "missing" /\ lib = UNDEFINED
    /\ manifest.file \in {"ok", "ENOENT"} /\ ~KeyDeclared(manifest)

C3_AbsentDeclaredOneRetryableError ==
    [][ /\ (disk = "missing" /\ lib = UNDEFINED /\ KeyDeclared(manifest)
            /\ \E uri \in Docs : LinterOpen(uri) \/ LinterChange(uri))
            => BagCardinality(lookups') = BagCardinality(lookups) + 1
        /\ \A l \in BagToSet(lookups) :
              (disk = "missing" /\ KeyDeclared(manifest)
               /\ l.origin = "single" /\ LinterResolved(l))
                 => /\ shown' = showErrorMessage(shown, FailedToLoadMessage)
                    /\ published' = published
                    /\ resolveModuleCallbacks(disk, manifest).promise.err.retry = "true" ]_vars

\* C4: the close of a document sends the empty list for its URI in that very
\* step, whatever validation of it is in flight
C4_CloseClears ==
    [][ \A uri \in Docs : Closes(uri) => published'[uri] = Sent(<< >>) ]_vars

C4_Witness ==
    \E uri \in Docs :
        /\ uri \notin documents
        /\ published[uri] = Sent(<< >>)
        /\ waiting[uri] > 0
        /\ document2Library[uri].state = "pending"

\* C5: a module found without lintText ends the resolution in the
\* non-retryable error, and the validation shows that error
C5_MalformedModuleSurfaced ==
    [][ \A l \in BagToSet(lookups) :
           (disk = "nolint" /\ l.origin = "single" /\ LinterResolved(l))
              => /\ shown' = showErrorMessage(shown, NoLintTextMessage)
                 /\ published' = published ]_vars

\* C6: isDependency(name) is true exactly when name is a key of dependencies
\* or of devDependencies, whatever the key maps to
C6_TrueIffKey ==
    (query.asked /\ query.manifest.file = "ok")
       => query.result = Returned(query.name \in (DOMAIN query.manifest.dependencies
                                                  \cup DOMAIN query.manifest.devDependencies))

\* C7: without a manifest file isDependency returns false for every name and
\* does not throw
C7_NoManifestFalse ==
    (query.asked /\ query.manifest.file = "ENOENT") => query.result = Returned(FALSE)

C7_Witness == query.asked /\ query.manifest.file = "ENOENT" /\ query.name = "marlint"

\* C8: with a manifest that is malformed or unreadable isDependency throws;
\* the error leaves the handler that asked, and that validation sends no
\* diagnostics and starts no resolution; thrown in resolveModule's rejection
\* callback, it rejects the validation, which sends no diagnostics either
ManifestUnreadable == manifest.file \in {"malformed", "EACCES"}

C8_ManifestErrorPropagates ==
    /\ \A m \in BrokenManifests, name \in Names :
          m.file # "ENOENT" => isDependency(m, name) = Thrown(PlainError(loadJsonFile(m).message))
    /\ [][ /\ (ManifestUnreadable /\ LinterRequest)
               => /\ isDependency(manifest, "marlint").threw
                  /\ uncaught' = uncaught \cup {isDependency(manifest, "marlint").err.message}
                  /\ published' = published /\ shown' = shown
                  /\ lookups' = lookups /\ batches' = batches
           /\ \A l \in BagToSet(lookups) :
                 (ManifestUnreadable /\ disk = "missing" /\ l.origin # "initialize"
                  /\ LinterResolved(l))
                    => /\ published' = published
                       /\ resolveModuleCallbacks(disk, manifest).promise
                             = Rejected(isDependency(manifest, "marlint").err)
                       /\ l.origin = "single"
                             => shown' = showErrorMessage(shown,
                                            isDependency(manifest, "marlint").err.message) ]_vars

C8_Witness ==
    /\ server = "linter" /\ ManifestUnreadable
    /\ uncaught # {} /\ documents # {}
    /\ \A uri \in Docs : published[uri] = NotSent

\* C9: the list sent for a report has one diagnostic per message of
\* results[0], in order: Error for severity 2 and Warning otherwise, the
\* message followed by " (ruleId)" unless ruleId is null, code = ruleId,
\* source "Marlint", start = end = (line - 1, column - 1)
Expected(problem, d) ==
    /\ d.severity = (IF problem.severity = 2 THEN "Error" ELSE "Warning")
    /\ d.message = (IF problem.ruleId = NULL THEN problem.message
                    ELSE problem.message \o " (" \o problem.ruleId \o ")")
    /\ d.code = problem.ruleId
    /\ d.source = "Marlint"
    /\ d.range.start = [line |-> problem.line - 1, character |-> problem.column - 1]
    /\ d.range.end = d.range.start

C9_DiagnosticsOfReport ==
    (lastLint.called /\ ~lastLint.lint.threw /\ Len(lastLint.lint.report.results) > 0)
       => LET msgs == lastLint.lint.report.results[1].messages
              sent == published[lastLint.uri]
          IN  /\ sent.sent
              /\ Len(sent.diagnostics) = Len(msgs)
              /\ \A i \in 1..Len(msgs) : Expected(msgs[i], sent.diagnostics[i])

C9_Witness ==
    /\ lastLint.called /\ ~lastLint.lint.threw
    /\ Len(lastLint.lint.report.results) > 0
    /\ LET msgs == lastLint.lint.report.results[1].messages
           ds   == published[lastLint.uri].diagnostics
       IN  /\ Len(msgs) = 2 /\ Len(ds) = 2
           /\ msgs[1].ruleId = NULL /\ msgs[1].severity = 1
           /\ msgs[2] = OneProblem
           /\ ds[2].severity = "Error"
           /\ ds[2].message = "x is not defined (no-undef)"
           /\ ds[2].range.start = [line |-> 2, character |-> 4]

\* C10: nothing keeps a validation that waits on the library of a document
\* from sending its diagnostics once the document is closed: while it waits
\* and a loadable module exists, the step that sends a non-empty list for
\* the closed document is possible
StalePublication(uri) ==
    \E answer \in Paths :
        /\ DocResolved(uri, answer)
        /\ published'[uri].sent /\ published'[uri].diagnostics # << >>

C10_StaleResultNotGuarded ==
    \A uri \in Docs :
        ( /\ server = "document" /\ uri \notin documents
          /\ document2Library[uri].state = "pending" /\ waiting[uri] > 0
          /\ \E path \in Paths : moduleAt[path] = "valid" )
            => ENABLED StalePublication(uri)

C10_Witness ==
    \E uri \in Docs :
        /\ server = "document" /\ uri \notin documents
        /\ published[uri].sent /\ published[uri].diagnostics # << >>

\* C11: every handle in the module cache exposes lintText: path2Library gets
\* an entry only in the step that required a module with lintText, and that
\* entry is what the document's promise is fulfilled with; this.lib is
\* assigned only by a lookup that found a module with lintText; so a lookup
\* that fails, or finds a module without lintText, leaves the cache as it was
C11_CachedHandlesExposeLintText ==
    [][ /\ \A path \in Paths :
              /\ Truthy(path2Library'[path]) => moduleAt'[path] = "valid"
              /\ path2Library'[path] # path2Library[path]
                    => /\ moduleAt[path] = "valid"
                       /\ \E uri \in Docs :
                             /\ DocResolved(uri, path)
                             /\ document2Library'[uri] = FulfilledWith(path2Library'[path])
        /\ lib' # lib
              => /\ disk = "valid" /\ lib' = MarlintModule
                 /\ \E l \in BagToSet(lookups) : LinterResolved(l) ]_vars

C11_Witness ==
    /\ server = "document"
    /\ \E path \in Paths : Truthy(path2Library[path])
    /\ \E path \in Paths : moduleAt[path] = "nolint" /\ ~Truthy(path2Library[path])
    /\ \E uri \in Docs : document2Library[uri] = RejectedPromise

\* C12: the module cache is written once: a path of path2Library that holds
\* a handle keeps it, the documents whose lookup answers that path are
\* fulfilled with that handle, and the assignment to this.lib runs only while
\* this.lib is unset
C12_CacheWrittenOnce ==
    [][ /\ \A path \in Paths :
              Truthy(path2Library[path])
                 => /\ path2Library'[path] = path2Library[path]
                    /\ \A uri \in Docs :
                          DocResolved(uri, path)
                             => document2Library'[uri] = FulfilledWith(path2Library[path])
        /\ \A l \in BagToSet(lookups) :
              (LinterResolved(l) /\ resolveModuleCallbacks(disk, manifest).store)
                 => lib = UNDEFINED ]_vars

\* C13: validations that overlap on a lookup that fails share its outcome:
\* the step that ends a validation's lookup in a rejection settles every
\* validation waiting at that time and shows the message once
C13_OverlappingFailureShownOnce ==
    [][ \A l \in BagToSet(lookups) :
           ( /\ l.origin = "single" /\ LinterResolved(l)
             /\ resolveModuleCallbacks(disk, manifest).promise.state = "rejected" )
              => /\ shown' = showErrorMessage(shown,
                                getMessage(resolveModuleCallbacks(disk, manifest).promise.err, l.uri))
                 /\ \A w \in BagToSet(lookups') : w.origin # "single" ]_vars

Loaded(uri) == document2Library[uri].state = "fulfilled" /\ Truthy(document2Library[uri].library)

AfterLint(uri, lint) ==
    IF Translate(lint).threw THEN published[uri] ELSE Sent(Translate(lint).diagnostics)

\* C14: what lintText (or the reading of its report) throws while a document
\* of the document-keyed server is validated is swallowed: no step shows a
\* message or leaves the error uncaught; a validation that throws leaves the
\* diagnostics of its document as they were; and in a revalidation of all
\* open documents, whichever of them throw, every other document whose
\* library is loaded gets the diagnostics of its own report
C14_LintErrorSuppressed ==
    [][ server = "document"
        => /\ shown' = shown
           /\ (uncaught' \ uncaught) \subseteq {NoLibraryMessage}
           /\ \A uri \in documents, lint \in ServerOutcomes :
                 Loaded(uri)
                    => LET r == validateDocument(documents, document2Library, published,
                                                 waiting, uncaught, uri, lint)
                       IN  /\ r.uncaught = uncaught
                           /\ r.published = [published EXCEPT ![uri] = AfterLint(uri, lint)]
           /\ \A lints \in [documents -> ServerOutcomes] :
                 LET r == validateAll(documents, document2Library, published, waiting,
                                      uncaught, documents, lints)
                 IN  \A uri \in documents :
                        Loaded(uri) => r.published[uri] = AfterLint(uri, lints[uri]) ]_vars

C14_Witness ==
    /\ server = "document" /\ documents = Docs
    /\ immediates = << >> /\ uncaught = {} /\ shown = EmptyBag
    /\ \A uri \in Docs : Loaded(uri) /\ waiting[uri] = 0
    /\ published[FileDoc] = NotSent
    /\ published[UntitledDoc] = Sent(ToDiagnostics(ReportOf(<< OneProblem >>)))

ManifestDeclares == isDependency(manifest, "marlint") = Returned(TRUE)

\* the step validates uri with some outcome of lintText: a report, whose
\* diagnostics are sent and nothing is shown; or a throw, and nothing is sent
LintedAndSent(uri) ==
    \E lint \in ServerOutcomes :
        IF Translate(lint).threw
        THEN /\ published' = published
             /\ shown' \in {shown, showErrorMessage(shown, Translate(lint).err.message)}
        ELSE /\ published' = sendDiagnostics(published, uri, Translate(lint).diagnostics)
             /\ shown' = shown

\* C15: with the manifest declaring the module and the module loadable, a
\* content change or open of a document with a file path ends in one list of
\* diagnostics sent for it, computed from the report, and in no message:
\* the step that runs the validation (with this.lib set: the request itself;
\* else the step that completes its lookup) sends the diagnostics of the
\* report lintText returned and shows nothing
C15_ChangePublishesDiagnostics ==
    [][ /\ (ManifestDeclares /\ lib # UNDEFINED
             /\ (LinterOpen(FileDoc) \/ LinterChange(FileDoc)))
            => LintedAndSent(FileDoc)
        /\ \A l \in BagToSet(lookups) :
              (l.origin = "single" /\ l.uri = FileDoc
               /\ disk = "valid" /\ ManifestDeclares
               /\ LinterResolved(l))
                 => LintedAndSent(FileDoc) ]_vars

BatchOf(l) == CHOOSE b \in batches : b.id = l.batch

Others(l, bag) == { w \in BagToSet(bag) : w.origin = "batch" /\ w.batch = l.batch /\ w # l }

\* C16: in a batch, the step that settles one document's validation,
\* failed or not, leaves the lookups of the batch's other documents in
\* flight; it shows nothing while others of the batch are unsettled; the
\* step that settles the last one shows every message the batch's failures
\* produced, each once; and a batch validated in one step (this.lib set)
\* shows each message at most once
C16_BatchErrorsAfterAllSettled ==
    [][ /\ \A l \in BagToSet(lookups) :
              (l.origin = "batch" /\ LinterResolved(l))
                 => /\ Others(l, lookups') = Others(l, lookups)
                    /\ Others(l, lookups) # {} => shown' = shown
                    /\ Others(l, lookups) = {}
                          => /\ \A m \in BagToSet(shown') :
                                   CopiesIn(m, shown') <= CopiesIn(m, shown) + 1
                             /\ \A m \in BatchOf(l).tracker :
                                   CopiesIn(m, shown') = CopiesIn(m, shown) + 1
        /\ LinterWatchedFiles
              => \A m \in BagToSet(shown') : CopiesIn(m, shown') <= CopiesIn(m, shown) + 1 ]_vars

C16_Witness ==
    \E b \in batches :
        /\ b.tracker = {FailedToLoadMessage} /\ b.open # {}
        /\ shown = EmptyBag
        /\ \E l \in BagToSet(lookups) : l.origin = "batch" /\ l.batch = b.id

\* C17: while isDependency("marlint") is false, a validation request of the
\* Linter server, single or batch, starts no lookup, sends no diagnostics,
\* shows nothing and leaves this.lib alone, whether this.lib is set or not
C17_ManifestBeforeCache ==
    [][ (server = "linter" /\ isDependency(manifest, "marlint") = Returned(FALSE)
         /\ LinterRequest)
           => /\ lookups' = lookups /\ batches' = batches
              /\ published' = published /\ shown' = shown
              /\ lib' = lib /\ uncaught' = uncaught ]_vars

C17_Witness ==
    /\ server = "linter" /\ lib = MarlintModule
    /\ isDependency(manifest, "marlint") = Returned(FALSE)
    /\ started = 1 /\ documents = {FileDoc}
    /\ published[FileDoc] = NotSent
    /\ shown = EmptyBag /\ uncaught = {} /\ lookups = EmptyBag

FailedBefore == BagIn(FailedToLoadMessage, shown)

\* C18: the Linter server keeps no failed resolution: after the
\* install-and-retry message was shown, a validation with this.lib unset
\* starts a new lookup; a lookup that then finds the module stores the
\* handle and sends the document's diagnostics, showing nothing; and once
\* this.lib is set it stays set and no step starts a lookup
C18_FailedResolutionRetried ==
    [][ /\ \A uri \in Docs :
              (FailedBefore /\ lib = UNDEFINED /\ ManifestDeclares
               /\ (LinterOpen(uri) \/ LinterChange(uri)))
                 => lookups' = lookups (+) SetToBag({Lookup("single", uri, 0)})
        /\ \A l \in BagToSet(lookups) :
              (FailedBefore /\ l.origin = "single" /\ l.uri = FileDoc
               /\ disk = "valid" /\ LinterResolved(l))
                 => /\ lib' = MarlintModule
                    /\ LintedAndSent(FileDoc)
        /\ lib # UNDEFINED
              => /\ lib' = lib
                 /\ \A l \in BagToSet(lookups') :
                       CopiesIn(l, lookups') <= CopiesIn(l, lookups) ]_vars

Settled(uri) == document2Library[uri].state \in {"fulfilled", "rejected"}

\* C19: the document2Library entry of a URI is created once and kept: an
\* entry is never removed; a pending entry only moves on (from the nodePath
\* attempt to the global one, or to its outcome); a settled entry, null
\* included, never changes; the close of the document leaves the entries as
\* they are; and the open of a URI that has an entry starts no lookup and
\* schedules no validation
C19_OutcomeCreatedOnce ==
    [][ \A uri \in Docs :
           /\ document2Library[uri].state # "none"
                 => /\ document2Library'[uri].state # "none"
                    /\ document2Library'[uri] # document2Library[uri]
                          => /\ document2Library[uri].state = "pending"
                             /\ document2Library'[uri] # Pending("nodePath")
           /\ Settled(uri) => document2Library'[uri] = document2Library[uri]
           /\ DocClose(uri) => document2Library' = document2Library
           /\ (document2Library[uri].state # "none" /\ DocOpen(uri))
                 => /\ document2Library' = document2Library
                    /\ immediates' = immediates ]_vars

C19_Witness ==
    \E uri \in Docs :
        /\ uri \in documents
        /\ document2Library[uri] = FulfilledWith(NULL)
        /\ published[uri] = Sent(<< >>)
        /\ immediates = << >> /\ waiting[uri] = 0

====
